---------------------------- MODULE Spec2Model ----------------------------
(***************************************************************************)
(* receipt-ocr: the response parser (src/src/processors/parser.ts) and the *)
(* extraction facade with its two verification passes                      *)
(* (src/src/extract.ts).                                                   *)
(*                                                                         *)
(* Money amounts are integers in cents (0.5 is 50, 12.5 is 1250); the      *)
(* sums, differences and products of the code are exact on them.          *)
(***************************************************************************)
EXTENDS Integers, Sequences, FiniteSets, TLC

(***************************************************************************)
(* JSON values as JSON.parse delivers them to the parser.  t is the        *)
(* JavaScript type of the value: "absent" is a missing key (undefined),    *)
(* "other" is a nested object or array.                                    *)
(***************************************************************************)
Absent == [t |-> "absent", n |-> 0, s |-> ""]

Null == [t |-> "null", n |-> 0, s |-> ""]

True == [t |-> "true", n |-> 0, s |-> ""]

False == [t |-> "false", n |-> 0, s |-> ""]

Other == [t |-> "other", n |-> 0, s |-> ""]

Num(x) == [t |-> "num", n |-> x, s |-> ""]

Str(x) == [t |-> "str", n |-> 0, s |-> x]

\* typeof v === 'number'
IsNumber(v) == v.t = "num"

\* typeof v === 'string'
IsString(v) == v.t = "str"

\* Boolean(v): JavaScript truthiness
Truthy(v) ==
    CASE v.t = "true" -> TRUE
      [] v.t = "num" -> v.n # 0
      [] v.t = "str" -> v.s # ""
      [] v.t = "other" -> TRUE
      [] OTHER -> FALSE

\* (v || 0) for a field that is a number or undefined
OrZero(v) == IF Truthy(v) THEN v.n ELSE 0

(***************************************************************************)
(* One element of the oracle's items array.  kind = "nonobject" is an      *)
(* element that is null or a primitive.                                    *)
(***************************************************************************)
RawItem(name, price, qty, needsVer, hasTax, tax, deposit, discount, isAtt, attType) ==
    [kind |-> "object", name |-> name, price |-> price, quantity |-> qty,
     needsVerification |-> needsVer, hasTax |-> hasTax,
     taxAmount |-> tax, deposit |-> deposit, discount |-> discount,
     isAttachment |-> isAtt, attachmentType |-> attType,
     attachedTo |-> Absent]

NonObjectItem == [RawItem(Absent, Absent, Absent, Absent, Absent, Absent,
                          Absent, Absent, Absent, Absent)
                  EXCEPT !.kind = "nonobject"]

\* NormalizeError without the test of the price's sign
NormalizeErrorAnyPrice(raw) ==
    IF raw.kind # "object" THEN "Invalid item: not an object"
    ELSE IF ~IsString(raw.name) \/ raw.name.s = ""
         THEN "Invalid item: missing or invalid name field"
    ELSE IF ~IsNumber(raw.price)
         THEN "Invalid item: missing or invalid price field"
    ELSE ""

(***************************************************************************)
(* normalizeRawItem: the reason it throws, or "" when it accepts.          *)
(***************************************************************************)
NormalizeError(raw) ==
    IF raw.kind # "object" THEN "Invalid item: not an object"
    ELSE IF ~IsString(raw.name) \/ raw.name.s = ""
         THEN "Invalid item: missing or invalid name field"
    ELSE IF ~IsNumber(raw.price) \/ raw.price.n < 0
         THEN "Invalid item: missing or invalid price field"
    ELSE ""

\* the record normalizeRawItem returns for an accepted element
normalizeRawItem(raw) ==
    [name |-> raw.name.s,
     price |-> raw.price.n,
     quantity |-> IF IsNumber(raw.quantity) THEN raw.quantity.n ELSE 1,
     needsVerification |-> Truthy(raw.needsVerification),
     hasTax |-> Truthy(raw.hasTax),
     taxAmount |-> IF IsNumber(raw.taxAmount) THEN raw.taxAmount ELSE Absent,
     deposit |-> IF IsNumber(raw.deposit) THEN raw.deposit ELSE Absent,
     discount |-> IF IsNumber(raw.discount) THEN raw.discount ELSE Absent,
     isAttachment |-> IF raw.isAttachment = True THEN True ELSE Absent,
     attachmentType |-> raw.attachmentType,
     attachedTo |-> IF IsNumber(raw.attachedTo) THEN raw.attachedTo ELSE Absent]

(***************************************************************************)
(* mergeAttachments.  The loop state is acc = [result, currentItem];       *)
(* currentItem is <<>> for null and <<item>> otherwise.                    *)
(***************************************************************************)
\* a deposit attachment: currentItem.deposit = (currentItem.deposit || 0) + price * quantity
AddDeposit(cur, item) ==
    [cur EXCEPT !.deposit = Num(OrZero(cur.deposit) + item.price * item.quantity)]

\* SubDiscount taking the quantity into account, as the deposit branch does
SubDiscountTimesQuantity(cur, item) ==
    [cur EXCEPT !.discount = Num(OrZero(cur.discount) - item.price * item.quantity)]

\* a discount attachment: currentItem.discount = (currentItem.discount || 0) - price
SubDiscount(cur, item) ==
    [cur EXCEPT !.discount = Num(OrZero(cur.discount) - item.price)]

\* MergeAttachment where an attachment with no current item opens an item
MergeAttachmentPhantom(acc, item) ==
    IF acc.currentItem # <<>>
    THEN IF item.attachmentType = Str("deposit")
         THEN [acc EXCEPT !.currentItem = <<AddDeposit(acc.currentItem[1], item)>>]
         ELSE IF item.attachmentType = Str("discount")
         THEN [acc EXCEPT !.currentItem = <<SubDiscount(acc.currentItem[1], item)>>]
         ELSE acc
    ELSE [acc EXCEPT !.currentItem = <<item>>]

\* MergeAttachment where an attachment of no known type closes the current item
MergeAttachmentUntypedCloses(acc, item) ==
    IF acc.currentItem # <<>>
    THEN IF item.attachmentType = Str("deposit")
         THEN [acc EXCEPT !.currentItem = <<AddDeposit(acc.currentItem[1], item)>>]
         ELSE IF item.attachmentType = Str("discount")
         THEN [acc EXCEPT !.currentItem = <<SubDiscount(acc.currentItem[1], item)>>]
         ELSE [result |-> Append(acc.result, acc.currentItem[1]), currentItem |-> <<>>]
    ELSE acc

\* MergeAttachment where the owner also takes over the attachment's two flags
MergeAttachmentInheritsFlags(acc, item) ==
    IF acc.currentItem # <<>>
    THEN LET cur == [acc.currentItem[1] EXCEPT
                        !.needsVerification = @ \/ item.needsVerification,
                        !.hasTax = @ \/ item.hasTax]
         IN IF item.attachmentType = Str("deposit")
            THEN [acc EXCEPT !.currentItem = <<AddDeposit(cur, item)>>]
            ELSE IF item.attachmentType = Str("discount")
            THEN [acc EXCEPT !.currentItem = <<SubDiscount(cur, item)>>]
            ELSE [acc EXCEPT !.currentItem = <<cur>>]
    ELSE acc

\* the attachment branch of the loop body, with and without a current item
MergeAttachment(acc, item) ==
    IF acc.currentItem # <<>>
    THEN IF item.attachmentType = Str("deposit")
         THEN [acc EXCEPT !.currentItem = <<AddDeposit(acc.currentItem[1], item)>>]
         ELSE IF item.attachmentType = Str("discount")
         THEN [acc EXCEPT !.currentItem = <<SubDiscount(acc.currentItem[1], item)>>]
         ELSE acc
    ELSE acc

\* OpenItem that forgets to emit the item that was open
OpenItemDropsOpen(acc, item) ==
    [result |-> acc.result, currentItem |-> <<item>>]

\* OpenItem that flips the sign of the item's own discount when it opens the item
OpenItemNegatesDiscount(acc, item) ==
    [result |-> IF acc.currentItem # <<>>
                THEN Append(acc.result, acc.currentItem[1])
                ELSE acc.result,
     currentItem |-> <<IF IsNumber(item.discount)
                       THEN [item EXCEPT !.discount = Num(0 - item.discount.n)]
                       ELSE item>>]

\* the non-attachment branch: emit the open item, open a copy of this one
OpenItem(acc, item) ==
    [result |-> IF acc.currentItem # <<>>
                THEN Append(acc.result, acc.currentItem[1])
                ELSE acc.result,
     currentItem |-> <<item>>]

\* one iteration of the for loop
MergeStep(acc, item) ==
    IF ~Truthy(item.isAttachment)
    THEN OpenItem(acc, item)
    ELSE MergeAttachment(acc, item)

RECURSIVE MergeLoop(_, _, _)
MergeLoop(items, i, acc) ==
    IF i > Len(items) THEN acc
    ELSE MergeLoop(items, i + 1, MergeStep(acc, items[i]))

\* const { isAttachment, attachmentType, attachedTo, ...cleanItem } = item
CleanItem(item) ==
    [f \in DOMAIN item \ {"isAttachment", "attachmentType", "attachedTo"} |-> item[f]]

mergeAttachments(items) ==
    LET acc == MergeLoop(items, 1, [result |-> <<>>, currentItem |-> <<>>])
        result == IF acc.currentItem # <<>>
                  THEN Append(acc.result, acc.currentItem[1])
                  ELSE acc.result
    IN [k \in 1..Len(result) |-> CleanItem(result[k])]

(***************************************************************************)
(* The oracle's response text.  kind: "garbage" is text that is no JSON,   *)
(* "nonobject" is JSON for null or a primitive, "object" is a JSON object  *)
(* with the items and total given.  fenced: the JSON is wrapped in a       *)
(* markdown code block.                                                    *)
(***************************************************************************)
ResponseText(kind, fenced, itemsIsArray, items, total) ==
    [kind |-> kind, fenced |-> fenced, itemsIsArray |-> itemsIsArray,
     items |-> items, total |-> total]

\* extractJson: the text with the code block markers removed
extractJson(text) == [text EXCEPT !.fenced = FALSE]

\* JSON.parse throws on text that is not JSON (code block markers included)
JsonParseFails(jsonText) == jsonText.fenced \/ jsonText.kind = "garbage"

\* the index (from 0) of the first element normalizeRawItem rejects, or -1
FirstInvalidIndex(items) ==
    IF \E k \in 1..Len(items) : NormalizeError(items[k]) # ""
    THEN (CHOOSE k \in 1..Len(items) :
             /\ NormalizeError(items[k]) # ""
             /\ \A j \in 1..(k - 1) : NormalizeError(items[j]) = "") - 1
    ELSE -1

ParseFailure(reason, index) ==
    [ok |-> FALSE, error |-> reason, index |-> index, items |-> <<>>, total |-> 0]

\* parseResponse giving an empty list where items is no array or the total is unusable
parseResponseLenient(responseText) ==
    LET jsonText == extractJson(responseText)
    IN IF JsonParseFails(jsonText) THEN ParseFailure("JSON syntax error", -1)
       ELSE IF jsonText.kind # "object"
            THEN ParseFailure("Response is not an object", -1)
       ELSE IF ~jsonText.itemsIsArray \/ ~IsNumber(jsonText.total) \/ jsonText.total.n < 0
            THEN [ok |-> TRUE, error |-> "", index |-> -1, items |-> <<>>, total |-> 0]
       ELSE IF FirstInvalidIndex(jsonText.items) # -1
            THEN ParseFailure(
                   NormalizeError(jsonText.items[FirstInvalidIndex(jsonText.items) + 1]),
                   FirstInvalidIndex(jsonText.items))
       ELSE [ok |-> TRUE, error |-> "", index |-> -1,
             items |-> mergeAttachments(
                          [k \in 1..Len(jsonText.items) |->
                              normalizeRawItem(jsonText.items[k])]),
             total |-> jsonText.total.n]

\* parseResponse: the ParsedReceiptData returned, or the error thrown
parseResponse(responseText) ==
    LET jsonText == extractJson(responseText)
    IN IF JsonParseFails(jsonText) THEN ParseFailure("JSON syntax error", -1)
       ELSE IF jsonText.kind # "object"
            THEN ParseFailure("Response is not an object", -1)
       ELSE IF ~jsonText.itemsIsArray
            THEN ParseFailure("Response.items is not an array", -1)
       ELSE IF ~IsNumber(jsonText.total) \/ jsonText.total.n < 0
            THEN ParseFailure("Response.total is missing or invalid", -1)
       ELSE IF FirstInvalidIndex(jsonText.items) # -1
            THEN ParseFailure(
                   NormalizeError(jsonText.items[FirstInvalidIndex(jsonText.items) + 1]),
                   FirstInvalidIndex(jsonText.items))
       ELSE [ok |-> TRUE, error |-> "", index |-> -1,
             items |-> mergeAttachments(
                          [k \in 1..Len(jsonText.items) |->
                              normalizeRawItem(jsonText.items[k])]),
             total |-> jsonText.total.n]

(***************************************************************************)
(* Bounds and input sets.                                                  *)
(***************************************************************************)
\* longest items array given to the parser on its own
MaxRecords == 3

\* longest items array the oracle returns to extractReceiptItems
MaxItems == 3

SeqsUpTo(S, n) == UNION {[1..k -> S] : k \in 0..n}

\* a substantive item as the prompt's example gives it
PlainItem(name, price, quantity, needsVerification) ==
    RawItem(Str(name), Num(price), quantity, needsVerification, False,
            Absent, Absent, Absent, Absent, Absent)

\* an attachment record as the prompt's example gives it
AttachmentItem(name, price, quantity, attachmentType) ==
    RawItem(Str(name), Num(price), quantity, False, False,
            Absent, Absent, Absent, True, attachmentType)

\* the elements the parser is tried on
ParserRecords ==
    { PlainItem("ORG MLK", 1250, Num(1), True),
      RawItem(Str("ORG BRD"), Num(800), Absent, False, True,
              Num(80), Num(100), Num(50), Absent, Absent),
      RawItem(Str("KS Apple"), Num(0), Num(3), True, False,
              Absent, Absent, Num(-50), False, Absent),
      AttachmentItem("Deposit", 50, Num(2), Str("deposit")),
      AttachmentItem("TPD", 50, Num(3), Str("discount")),
      AttachmentItem("TPD0", 0, Num(1), Str("discount")),
      AttachmentItem("Fee", 50, Num(1), Absent),
      AttachmentItem("Tip", 70, Num(2), Str("tip")),
      AttachmentItem("Deposit VL", 30, Absent, Str("deposit")),
      AttachmentItem("TPD", -50, Num(1), Str("discount")),
      PlainItem("", 100, Num(1), False),
      NonObjectItem,
      RawItem(Str("KS Milk"), Num(300), Str("2"), Str("yes"), Num(1),
              Str("0.8"), Null, Other, Str("true"), Str("deposit")),
      RawItem(Str("Bag"), Num(10), Num(0), Absent, Null,
              Num(-5), Num(0), Num(0), Absent, Absent) }

\* response texts whose payload is no JSON, no object, has items that is no array, or
\* has a total that is missing, no number or negative
MalformedResponses ==
    { ResponseText(kind, f, FALSE, <<>>, Absent) :
        kind \in {"garbage", "nonobject"}, f \in BOOLEAN }
      \cup { ResponseText("object", f, FALSE, <<>>, Num(1000)) : f \in BOOLEAN }
      \cup { ResponseText("object", f, TRUE, items, tot) :
                f \in BOOLEAN,
                items \in {<<>>, <<PlainItem("ORG MLK", 1250, Num(1), True)>>},
                tot \in {Absent, Null, Str("13.5"), Num(-1350)} }

\* the example output of EXTRACTION_PROMPT, element by element
PromptExample ==
    ResponseText("object", FALSE, TRUE,
        << PlainItem("KS ORG MLK 1L", 1250, Num(1), True),
           RawItem(Str("ORG BRD"), Num(800), Num(1), True, True,
                   Num(80), Absent, Absent, Absent, Absent),
           AttachmentItem("Deposit VL", 50, Num(2), Str("deposit")),
           AttachmentItem("TPD", -50, Num(1), Str("discount")),
           RawItem(Str("CEMOI 6X"), Num(1500), Num(1), True, True,
                   Absent, Absent, Absent, Absent, Absent),
           PlainItem("KS Apple", 450, Num(3), True) >>,
        Num(3730))

\* the response texts the parser is tried on
ParserResponses ==
    { ResponseText("object", f, TRUE, items, Num(1350)) :
        f \in BOOLEAN, items \in SeqsUpTo(ParserRecords, MaxRecords) }
      \cup MalformedResponses
      \cup {PromptExample}

\* the elements the oracle returns to extractReceiptItems
ExtractRecords ==
    { PlainItem("A", 1250, Num(1), True),
      PlainItem("B", 800, Num(2), True),
      PlainItem("A", 450, Num(3), False),
      AttachmentItem("Deposit", 50, Num(2), Str("deposit")),
      PlainItem("", 100, Num(1), True),
      PlainItem("C", -100, Num(1), True) }

\* one-element payloads whose quantity is 0, negative, absent, or not a number
QuantityResponses ==
    { ResponseText("object", FALSE, TRUE, <<PlainItem("Bag", 10, q, False)>>, Num(1350)) :
        q \in {Num(0), Num(-2), Absent, Str("2")} }

\* one-element payloads whose needsVerification and hasTax are not booleans
CoercionResponses ==
    { ResponseText("object", FALSE, TRUE,
                   <<RawItem(Str("A"), Num(300), Num(1), nv, ht,
                             Absent, Absent, Absent, Absent, Absent)>>, Num(1350)) :
        nv \in {Str("false"), Num(1), Absent}, ht \in {Str("no"), Null} }

\* one-element payloads whose taxAmount is negative, positive, not a number, or absent
TaxResponses ==
    { ResponseText("object", FALSE, TRUE,
                   <<RawItem(Str("Bag"), Num(10), Num(1), False, True,
                             tax, Absent, Absent, Absent, Absent)>>, Num(1350)) :
        tax \in {Num(-5), Num(80), Str("0.8"), Null, Absent} }

\* an attachment record that is itself flagged for verification and taxed
FlaggedAttachment ==
    RawItem(Str("TPD"), Num(50), Num(1), True, True,
            Absent, Absent, Absent, True, Str("discount"))

\* payloads with the flagged attachment: alone, after a flagged item, after an item
\* that is not flagged, and between two items
FlaggedAttachmentResponses ==
    { ResponseText("object", FALSE, TRUE, items, Num(1350)) :
        items \in { <<FlaggedAttachment>>,
                    <<PlainItem("A", 1250, Num(1), True), FlaggedAttachment>>,
                    <<PlainItem("A", 450, Num(3), False), FlaggedAttachment>>,
                    <<PlainItem("A", 450, Num(3), False), FlaggedAttachment,
                      PlainItem("B", 800, Num(2), True)>> } }

\* the response texts callGemini returns
ExtractResponses ==
    { ResponseText("object", FALSE, TRUE, items, Num(1350)) :
        items \in SeqsUpTo(ExtractRecords, MaxItems) }
      \cup { ResponseText("object", FALSE, TRUE, <<item>>, Num(0)) :
                item \in ExtractRecords }
      \cup { ResponseText("garbage", FALSE, FALSE, <<>>, Absent) }
      \cup QuantityResponses
      \cup CoercionResponses
      \cup TaxResponses
      \cup FlaggedAttachmentResponses
      \cup MalformedResponses

\* the names the batch source may key its result on, and the names it resolves to
BatchKeys == {"A", "B"}

BatchNames == {"", "X"}

\* the Map batchVerifyItems resolves to: a function from some keys to names
VerificationMaps == UNION {[D -> BatchNames] : D \in SUBSET BatchKeys}

\* what a verifyCallback resolves to: null, or a VerificationResult
NullResult == [isNull |-> TRUE, verifiedName |-> ""]

NamedResult(name) == [isNull |-> FALSE, verifiedName |-> name]

CallbackResults == {NullResult, NamedResult(""), NamedResult("Y")}

\* the inputs of two concurrent calls: payloads of at most ConcItems flagged lines with
\* the total of their lines, mappings that resolve "A" or nothing, and one callback
\* result (a callback that throws stands for the results that change nothing)
ConcItems == 2

ConcRecords == {PlainItem("A", 1250, Num(1), True), PlainItem("B", 800, Num(2), True)}

RECURSIVE SumOfLines(_)
SumOfLines(items) ==
    IF items = <<>> THEN 0
    ELSE Head(items).price.n * Head(items).quantity.n + SumOfLines(Tail(items))

ConcResponses ==
    { ResponseText("object", FALSE, TRUE, items, Num(SumOfLines(items))) :
        items \in SeqsUpTo(ConcRecords, ConcItems) }

ConcMaps == {map \in VerificationMaps : \A n \in DOMAIN map : n = "A" /\ map[n] = "X"}

ConcCallbackResults == {NamedResult("Y")}

ConcOptions == {[autoVerify |-> "absent", verifyCallback |-> TRUE]}

\* ExtractOptions: autoVerify is undefined, true or false; verifyCallback is given or not
OptionSets == [autoVerify : {"absent", "true", "false"}, verifyCallback : BOOLEAN]

(***************************************************************************)
(* State.                                                                  *)
(***************************************************************************)
VARIABLES
    pc,            \* where the extractReceiptItems call is suspended
    options,       \* the ExtractOptions of the call
    responseText,  \* <<text>> once callGemini has returned, else <<>>
    parsed0,       \* the list as parseResponse returned it (kept for the properties)
    parsedItems,   \* the InternalReceiptItem list, changed in place
    total,         \* the total taken from the parsed response
    i,             \* position of the callback loop in parsedItems
    batchCalls,    \* the calls of batchVerifyItems, in order
    cbCalls,       \* the calls of options.verifyCallback, in order
    returned,      \* <<ReceiptData>> once the call has returned, else <<>>
    thrown,        \* the error the call has thrown, else ""
    callLog,       \* the external functions the call has invoked so far, in order
    parserInput,   \* <<text>> given to a direct parseResponse call, else <<>>
    parserOutput,  \* <<result>> of that call, else <<>>
    other          \* <<locals>> of a second, suspended extractReceiptItems call, else <<>>

vars == <<pc, options, responseText, parsed0, parsedItems, total, i, batchCalls, cbCalls,
          returned, thrown, callLog, parserInput, parserOutput, other>>

extractVars == <<pc, options, responseText, parsed0, parsedItems, total, i, batchCalls,
                 cbCalls, returned, thrown, callLog>>

\* the local variables and parameters of the running extractReceiptItems call
CallState ==
    [pc |-> pc, options |-> options, responseText |-> responseText, parsed0 |-> parsed0,
     parsedItems |-> parsedItems, total |-> total, i |-> i, batchCalls |-> batchCalls,
     cbCalls |-> cbCalls, returned |-> returned, thrown |-> thrown, callLog |-> callLog]

\* a call that has just been made and is suspended in its callGemini call
NewCall(opts) ==
    [pc |-> "callGemini", options |-> opts, responseText |-> <<>>, parsed0 |-> <<>>,
     parsedItems |-> <<>>, total |-> 0, i |-> 0, batchCalls |-> <<>>, cbCalls |-> <<>>,
     returned |-> <<>>, thrown |-> "", callLog |-> <<"callGemini">>]

\* what the external functions answer, by specification
OracleResponses == IF other = <<>> THEN ExtractResponses ELSE ConcResponses

BatchResults == IF other = <<>> THEN VerificationMaps ELSE ConcMaps

CallbackAnswers == IF other = <<>> THEN CallbackResults ELSE ConcCallbackResults

(***************************************************************************)
(* extractReceiptItems.                                                    *)
(***************************************************************************)
\* PublicItem copying the item with every field
PublicItemKeepsFlag(item) == item

\* ({ needsVerification, ...item }) => ({...item})
PublicItem(item) == [f \in DOMAIN item \ {"needsVerification"} |-> item[f]]

PublicItems(items) == [k \in 1..Len(items) |-> PublicItem(items[k])]

\* AutoVerifyEnabled as an opt-in: on only when autoVerify is true
AutoVerifyOnlyWhenTrue(opts) == opts.autoVerify = "true"

\* options?.autoVerify !== false
AutoVerifyEnabled(opts) == opts.autoVerify # "false"

\* parsedItems.filter(item => item.needsVerification)
ItemsNeedingVerification(items) == SelectSeq(items, LAMBDA it : it.needsVerification)

\* verificationMap.get(name): the value, or undefined
MapGet(map, name) == IF name \in DOMAIN map THEN Str(map[name]) ELSE Absent

\* ApplyMapToItem replacing the name without clearing the flag
ApplyMapToItemKeepsFlag(item, map) ==
    IF item.needsVerification /\ Truthy(MapGet(map, item.name))
    THEN [item EXCEPT !.name = MapGet(map, item.name).s]
    ELSE item

\* ApplyMapToItem testing only that the mapping has an entry for the name
ApplyMapToItemAnyEntry(item, map) ==
    IF item.needsVerification /\ item.name \in DOMAIN map
    THEN [item EXCEPT !.name = map[item.name], !.needsVerification = FALSE]
    ELSE item

\* ApplyMapToItem without the test of the flag
ApplyMapToItemAnyItem(item, map) ==
    IF Truthy(MapGet(map, item.name))
    THEN [item EXCEPT !.name = MapGet(map, item.name).s,
                      !.needsVerification = FALSE]
    ELSE item

\* the body of the loop that applies the batch result to one item
ApplyMapToItem(item, map) ==
    IF item.needsVerification /\ Truthy(MapGet(map, item.name))
    THEN [item EXCEPT !.name = MapGet(map, item.name).s,
                      !.needsVerification = FALSE]
    ELSE item

\* ApplyVerificationMap by position: only the first flagged item of each name is looked up
ApplyVerificationMapFirstOnly(items, map) ==
    [k \in 1..Len(items) |->
        IF \E j \in 1..(k - 1) : items[j].needsVerification /\ items[j].name = items[k].name
        THEN items[k]
        ELSE ApplyMapToItem(items[k], map)]

\* for (const item of itemsNeedingVerification) { verificationMap.get(item.name) ... }
ApplyVerificationMap(items, map) ==
    [k \in 1..Len(items) |-> ApplyMapToItem(items[k], map)]

\* ApplyCallbackResult testing only that the result is not null
ApplyCallbackResultAnyName(item, result) ==
    IF ~result.isNull
    THEN [item EXCEPT !.name = result.verifiedName, !.needsVerification = FALSE]
    ELSE item

\* if (result && result.verifiedName) { item.name = ...; item.needsVerification = false }
ApplyCallbackResult(item, result) ==
    IF ~result.isNull /\ result.verifiedName # ""
    THEN [item EXCEPT !.name = result.verifiedName, !.needsVerification = FALSE]
    ELSE item

\* the items the callback loop still visits from position k on
FlaggedFrom(items, k) == {j \in k..Len(items) : items[j].needsVerification}

Min(S) == CHOOSE x \in S : \A y \in S : x <= y

\* VerificationContext built from the list as it was parsed
VerificationContextStale(text, items) ==
    [rawText |-> text, allItems |-> PublicItems(parseResponse(text).items)]

\* the context built right before a callback invocation
VerificationContext(text, items) == [rawText |-> text, allItems |-> PublicItems(items)]

\* ReceiptData with the total recomputed from the line items
ReceiptDataRecomputed(items, tot) ==
    [items |-> PublicItems(items),
     total |-> IF items = <<>> THEN 0 ELSE items[1].price * items[1].quantity]

\* step 4 and the return statement
ReceiptData(items, tot) == [items |-> PublicItems(items), total |-> tot]

(***************************************************************************)
(* The callback loop from position k on, up to its next suspension: it     *)
(* skips the items that are not flagged, and either invokes the callback   *)
(* for the next flagged item or, with none left or no callback, returns.   *)
(***************************************************************************)
CallbackPass(text, items, tot, k, calls) ==
    /\ parsedItems' = items
    /\ total' = tot
    /\ IF options.verifyCallback /\ FlaggedFrom(items, k) # {}
       THEN LET j == Min(FlaggedFrom(items, k))
            IN /\ pc' = "awaitCallback"
               /\ i' = j
               /\ cbCalls' = Append(calls,
                     [index |-> j, name |-> items[j].name,
                      context |-> VerificationContext(text, items),
                      outcome |-> "pending", result |-> NullResult])
               /\ callLog' = Append(callLog, "verifyCallback")
               /\ returned' = returned
       ELSE /\ pc' = "done"
            /\ i' = Len(items) + 1
            /\ cbCalls' = calls
            /\ callLog' = callLog
            /\ returned' = <<ReceiptData(items, tot)>>

\* callGemini returns: steps 2 and 3 up to the next suspension
GeminiReturns ==
    /\ pc = "callGemini"
    /\ \E text \in OracleResponses :
         LET parsed == parseResponse(text)
             flagged == ItemsNeedingVerification(parsed.items)
         IN /\ responseText' = <<text>>
            /\ parsed0' = parsed.items
            /\ IF ~parsed.ok
               THEN /\ pc' = "failed"
                    /\ thrown' = parsed.error
                    /\ UNCHANGED <<parsedItems, total, i, batchCalls, cbCalls, returned,
                                   callLog>>
               ELSE IF AutoVerifyEnabled(options) /\ Len(flagged) > 0
               THEN /\ pc' = "awaitBatch"
                    /\ parsedItems' = parsed.items
                    /\ total' = parsed.total
                    /\ batchCalls' = Append(batchCalls,
                          [arg |-> flagged, outcome |-> "pending", map |-> <<>>])
                    /\ callLog' = Append(callLog, "batchVerifyItems")
                    /\ UNCHANGED <<i, cbCalls, returned, thrown>>
               ELSE /\ CallbackPass(text, parsed.items, parsed.total, 1, cbCalls)
                    /\ UNCHANGED <<batchCalls, thrown>>
    /\ UNCHANGED <<options, parserInput, parserOutput, other>>

\* GeminiThrows with one retry: the oracle is called a second time
GeminiThrowsRetries ==
    /\ pc = "callGemini"
    /\ IF Len(callLog) < 2
       THEN /\ callLog' = Append(callLog, "callGemini")
            /\ UNCHANGED <<pc, thrown>>
       ELSE /\ pc' = "failed"
            /\ thrown' = "callGemini failed"
            /\ callLog' = callLog
    /\ UNCHANGED <<options, parsed0, responseText, parsedItems, total, i, batchCalls,
                   cbCalls, returned, parserInput, parserOutput, other>>

\* callGemini throws: the call fails
GeminiThrows ==
    /\ pc = "callGemini"
    /\ pc' = "failed"
    /\ thrown' = "callGemini failed"
    /\ UNCHANGED <<options, parsed0, responseText, parsedItems, total, i, batchCalls,
                   cbCalls, returned, callLog, parserInput, parserOutput, other>>

\* batchVerifyItems resolves: apply the map, then the callback pass
BatchReturns ==
    /\ pc = "awaitBatch"
    /\ \E map \in BatchResults :
         /\ batchCalls' = [batchCalls EXCEPT ![Len(batchCalls)].outcome = "returned",
                                             ![Len(batchCalls)].map = map]
         /\ CallbackPass(responseText[1], ApplyVerificationMap(parsedItems, map), total, 1,
                      cbCalls)
    /\ UNCHANGED <<options, parsed0, responseText, thrown, parserInput, parserOutput, other>>

\* BatchThrows without the try/catch: the error reaches the caller
BatchThrowsUncaught ==
    /\ pc = "awaitBatch"
    /\ pc' = "failed"
    /\ thrown' = "batchVerifyItems failed"
    /\ batchCalls' = [batchCalls EXCEPT ![Len(batchCalls)].outcome = "threw"]
    /\ UNCHANGED <<options, parsed0, responseText, parsedItems, total, i, cbCalls, returned,
                   callLog, parserInput, parserOutput, other>>

\* batchVerifyItems throws: the catch logs, then the callback pass
BatchThrows ==
    /\ pc = "awaitBatch"
    /\ batchCalls' = [batchCalls EXCEPT ![Len(batchCalls)].outcome = "threw"]
    /\ CallbackPass(responseText[1], parsedItems, total, 1, cbCalls)
    /\ UNCHANGED <<options, parsed0, responseText, thrown, parserInput, parserOutput, other>>

\* the callback resolves for item i: apply the result, then go on with the loop
CallbackReturns ==
    /\ pc = "awaitCallback"
    /\ \E result \in CallbackAnswers :
         /\ CallbackPass(responseText[1],
               [parsedItems EXCEPT ![i] = ApplyCallbackResult(parsedItems[i], result)],
               total, i + 1,
               [cbCalls EXCEPT ![Len(cbCalls)].outcome = "returned",
                               ![Len(cbCalls)].result = result])
    /\ UNCHANGED <<options, parsed0, responseText, batchCalls, thrown, parserInput, parserOutput, other>>

\* CallbackThrows with the try/catch around the whole loop: the loop ends
CallbackThrowsEndsLoop ==
    /\ pc = "awaitCallback"
    /\ CallbackPass(responseText[1], parsedItems, total, Len(parsedItems) + 1,
                    [cbCalls EXCEPT ![Len(cbCalls)].outcome = "threw"])
    /\ UNCHANGED <<options, parsed0, responseText, batchCalls, thrown, parserInput, parserOutput, other>>

\* CallbackThrows offering the same item to the callback again
CallbackThrowsRetriesItem ==
    /\ pc = "awaitCallback"
    /\ CallbackPass(responseText[1], parsedItems, total, i,
                    [cbCalls EXCEPT ![Len(cbCalls)].outcome = "threw"])
    /\ UNCHANGED <<options, parsed0, responseText, batchCalls, thrown, parserInput, parserOutput, other>>

\* the callback throws for item i: the catch logs, then go on with the loop
CallbackThrows ==
    /\ pc = "awaitCallback"
    /\ CallbackPass(responseText[1], parsedItems, total, i + 1,
                    [cbCalls EXCEPT ![Len(cbCalls)].outcome = "threw"])
    /\ UNCHANGED <<options, parsed0, responseText, batchCalls, thrown, parserInput, parserOutput, other>>

\* ResumeOther with total kept in one place for all calls instead of in each call
ResumeOtherSharedTotal ==
    /\ other # <<>>
    /\ pc' = other[1].pc
    /\ options' = other[1].options
    /\ responseText' = other[1].responseText
    /\ parsed0' = other[1].parsed0
    /\ parsedItems' = other[1].parsedItems
    /\ total' = total
    /\ i' = other[1].i
    /\ batchCalls' = other[1].batchCalls
    /\ cbCalls' = other[1].cbCalls
    /\ returned' = other[1].returned
    /\ thrown' = other[1].thrown
    /\ callLog' = other[1].callLog
    /\ other' = <<CallState>>
    /\ UNCHANGED <<parserInput, parserOutput>>

\* the running call is suspended at an await (or has ended) and the event loop goes on
\* with the other call: every variable of the function body belongs to its call
ResumeOther ==
    /\ other # <<>>
    /\ pc' = other[1].pc
    /\ options' = other[1].options
    /\ responseText' = other[1].responseText
    /\ parsed0' = other[1].parsed0
    /\ parsedItems' = other[1].parsedItems
    /\ total' = other[1].total
    /\ i' = other[1].i
    /\ batchCalls' = other[1].batchCalls
    /\ cbCalls' = other[1].cbCalls
    /\ returned' = other[1].returned
    /\ thrown' = other[1].thrown
    /\ callLog' = other[1].callLog
    /\ other' = <<CallState>>
    /\ UNCHANGED <<parserInput, parserOutput>>

\* a direct call of the exported parseResponse
ParseResponseCall ==
    /\ pc = "parser"
    /\ parserInput = <<>>
    /\ \E text \in ParserResponses :
         /\ parserInput' = <<text>>
         /\ parserOutput' = <<parseResponse(text)>>
    /\ UNCHANGED <<extractVars, other>>

Idle ==
    /\ responseText = <<>>
    /\ parsed0 = <<>>
    /\ parsedItems = <<>>
    /\ total = 0
    /\ i = 0
    /\ batchCalls = <<>>
    /\ cbCalls = <<>>
    /\ returned = <<>>
    /\ thrown = ""
    /\ parserInput = <<>>
    /\ parserOutput = <<>>

\* extractReceiptItems has been called and awaits callGemini
\* extractReceiptItems has been called and is suspended in its callGemini call
Init ==
    /\ pc = "callGemini"
    /\ options \in OptionSets
    /\ callLog = <<"callGemini">>
    /\ other = <<>>
    /\ Idle

Next ==
    \/ GeminiReturns
    \/ GeminiThrows
    \/ BatchReturns
    \/ BatchThrows
    \/ CallbackReturns
    \/ CallbackThrows

Spec == Init /\ [][Next]_vars

\* parseResponse called on its own
ParserInit ==
    /\ pc = "parser"
    /\ options = [autoVerify |-> "false", verifyCallback |-> FALSE]
    /\ callLog = <<>>
    /\ other = <<>>
    /\ Idle

ParserNext == ParseResponseCall

ParserSpec == ParserInit /\ [][ParserNext]_vars

\* two extractReceiptItems calls made one after the other, both suspended in callGemini
ConcInit ==
    /\ pc = "callGemini"
    /\ options \in ConcOptions
    /\ callLog = <<"callGemini">>
    /\ other \in {<<NewCall(opts)>> : opts \in ConcOptions}
    /\ Idle

ConcNext ==
    \/ Next
    \/ ResumeOther

ConcSpec == ConcInit /\ [][ConcNext]_vars

(***************************************************************************)
(* What an extraction run was given, read from its inputs alone.           *)
(***************************************************************************)
\* the list parseResponse returned to this run
Parsed0 == parsed0

\* the run got past parseResponse
Parsed == pc \in {"awaitBatch", "awaitCallback", "done"}

BatchReturned == batchCalls # <<>> /\ batchCalls[1].outcome = "returned"

BatchThrew == batchCalls # <<>> /\ batchCalls[1].outcome = "threw"

\* item k was flagged by the parser and the batch mapping has a non-empty name for it
BatchResolved(k) ==
    /\ BatchReturned
    /\ Parsed0[k].needsVerification
    /\ Parsed0[k].name \in DOMAIN batchCalls[1].map
    /\ batchCalls[1].map[Parsed0[k].name] # ""

\* item k was flagged by the parser and the batch pass left it flagged
FlaggedAfterBatch(k) == Parsed0[k].needsVerification /\ ~BatchResolved(k)

\* callback invocation c resolved its item
CallbackResolved(c) ==
    /\ cbCalls[c].outcome = "returned"
    /\ ~cbCalls[c].result.isNull
    /\ cbCalls[c].result.verifiedName # ""

\* the name item k has when invocation c is made (c = Len(cbCalls) + 1: at the end)
NameBefore(c, k) ==
    IF \E d \in 1..(c - 1) : cbCalls[d].index = k /\ CallbackResolved(d)
    THEN cbCalls[CHOOSE d \in 1..(c - 1) :
                    cbCalls[d].index = k /\ CallbackResolved(d)].result.verifiedName
    ELSE IF BatchResolved(k) THEN batchCalls[1].map[Parsed0[k].name]
    ELSE Parsed0[k].name

(***************************************************************************)
(* C1: with both passes configured, the callback is never invoked for an  *)
(* item the batch pass resolved; every invocation is for an item that was  *)
(* flagged by the parser and is still flagged after the batch pass.        *)
(***************************************************************************)
C1_CallbackOnlyForUnresolved ==
    \A c \in 1..Len(cbCalls) :
        /\ cbCalls[c].index \in 1..Len(Parsed0)
        /\ ~BatchResolved(cbCalls[c].index)
        /\ FlaggedAfterBatch(cbCalls[c].index)

\* a run where the batch pass resolved one item and the callback was invoked for another
C1_Witness ==
    /\ pc = "done"
    /\ cbCalls # <<>>
    /\ \E k \in 1..Len(Parsed0) : BatchResolved(k)

(***************************************************************************)
(* C2: the allItems snapshot of every callback invocation holds, at every  *)
(* position, the name the item has at that moment: the batch pass's or an  *)
(* earlier invocation's replacement where there was one, else the parsed   *)
(* name; while the invocation is pending it equals the current list.       *)
(***************************************************************************)
C2_ContextIsCurrent ==
    /\ \A c \in 1..Len(cbCalls) :
          /\ Len(cbCalls[c].context.allItems) = Len(Parsed0)
          /\ \A k \in 1..Len(Parsed0) :
                cbCalls[c].context.allItems[k].name = NameBefore(c, k)
    /\ pc = "awaitCallback" =>
          cbCalls[Len(cbCalls)].context.allItems = PublicItems(parsedItems)

\* a second invocation whose snapshot shows the name the first one resolved, and a
\* name the batch pass resolved
C2_Witness ==
    /\ Len(cbCalls) >= 2
    /\ CallbackResolved(1)
    /\ cbCalls[2].context.allItems[cbCalls[1].index].name = "Y"
    /\ \E k \in 1..Len(Parsed0) :
          BatchResolved(k) /\ cbCalls[2].context.allItems[k].name = "X"

(***************************************************************************)
(* C3: when the callback throws for an item, the item keeps its parsed     *)
(* name and stays flagged, the callback is still invoked for every later   *)
(* item that is flagged, and the call returns a result and does not throw. *)
(***************************************************************************)
C3_CallbackThrowIsolated ==
    \A c \in 1..Len(cbCalls) :
        cbCalls[c].outcome = "threw" =>
            LET j == cbCalls[c].index
            IN /\ parsedItems[j].name = Parsed0[j].name
               /\ parsedItems[j].needsVerification
               /\ thrown = ""
               /\ pc \in {"awaitCallback", "done"}
               /\ pc = "done" =>
                     /\ returned # <<>>
                     /\ returned[1].items[j].name = Parsed0[j].name
                     /\ \A k \in (j + 1)..Len(Parsed0) :
                           FlaggedAfterBatch(k) =>
                              \E d \in (c + 1)..Len(cbCalls) : cbCalls[d].index = k

\* a finished run where the callback threw for one item and was invoked for a later one
C3_Witness ==
    /\ pc = "done"
    /\ Len(cbCalls) >= 2
    /\ cbCalls[1].outcome = "threw"
    /\ cbCalls[2].index > cbCalls[1].index

(***************************************************************************)
(* C4: when batchVerifyItems throws, the call does not throw; the batch    *)
(* pass changes no name and no flag (the list the first callback sees, or  *)
(* the list returned without a callback, is the parsed list); with a       *)
(* callback every flagged item is offered to it; and the result has every  *)
(* parsed item and the total.                                              *)
(***************************************************************************)
C4_BatchThrowIsolated ==
    BatchThrew =>
        /\ thrown = ""
        /\ pc \in {"awaitCallback", "done"}
        /\ cbCalls # <<>> => cbCalls[1].context.allItems = PublicItems(Parsed0)
        /\ pc = "done" =>
              /\ returned # <<>>
              /\ returned[1].total = responseText[1].total.n
              /\ Len(returned[1].items) = Len(Parsed0)
              /\ \A k \in 1..Len(Parsed0) :
                    returned[1].items[k] =
                       [PublicItem(Parsed0[k]) EXCEPT
                           !.name = NameBefore(Len(cbCalls) + 1, k)]
              /\ ~options.verifyCallback => parsedItems = Parsed0
              /\ options.verifyCallback =>
                    \A k \in 1..Len(Parsed0) :
                       Parsed0[k].needsVerification =>
                          \E c \in 1..Len(cbCalls) : cbCalls[c].index = k

\* a finished run where the batch call threw and the callback was offered two items
C4_Witness ==
    /\ pc = "done"
    /\ BatchThrew
    /\ Len(cbCalls) >= 2

(***************************************************************************)
(* C5: the total returned is the total of the oracle's payload, whatever   *)
(* the verification configuration and outcomes were.                       *)
(***************************************************************************)
C5_TotalPassedThrough ==
    /\ Parsed => total = responseText[1].total.n
    /\ pc = "done" => returned[1].total = responseText[1].total.n

\* a finished run with a batch result applied and a callback result applied
C5_Witness ==
    /\ pc = "done"
    /\ \E k \in 1..Len(Parsed0) : BatchResolved(k)
    /\ \E c \in 1..Len(cbCalls) : CallbackResolved(c)
    /\ returned[1].total = 1350

(***************************************************************************)
(* C6: verification keeps the list: same length and order as the parsed    *)
(* list, items that were not flagged unchanged in every field, flagged     *)
(* items changed in nothing but the name.                                  *)
(***************************************************************************)
SameButName(a, b) == [a EXCEPT !.name = b.name] = b

C6_VerificationPreservesList ==
    /\ Parsed =>
          /\ Len(parsedItems) = Len(Parsed0)
          /\ \A k \in 1..Len(Parsed0) :
                IF Parsed0[k].needsVerification
                THEN SameButName(PublicItem(parsedItems[k]), PublicItem(Parsed0[k]))
                ELSE parsedItems[k] = Parsed0[k]
    /\ pc = "done" =>
          /\ Len(returned[1].items) = Len(Parsed0)
          /\ \A k \in 1..Len(Parsed0) :
                IF Parsed0[k].needsVerification
                THEN SameButName(returned[1].items[k], PublicItem(Parsed0[k]))
                ELSE returned[1].items[k] = PublicItem(Parsed0[k])

\* a finished run with a renamed flagged item and an unflagged item of the same parsed name
C6_Witness ==
    /\ pc = "done"
    /\ \E k, m \in 1..Len(Parsed0) :
          /\ BatchResolved(k)
          /\ ~Parsed0[m].needsVerification
          /\ Parsed0[m].name = Parsed0[k].name
          /\ returned[1].items[k].name = "X"
          /\ returned[1].items[m].name = Parsed0[m].name

(***************************************************************************)
(* What a direct parseResponse call was given, read from the oracle's      *)
(* records alone.                                                          *)
(***************************************************************************)
\* the parse was made and succeeded
ParseOk == parserOutput # <<>> /\ parserOutput[1].ok

InRecords == parserInput[1].items

OutItems == parserOutput[1].items

\* a record with isAttachment = true
IsAttachmentRecord(raw) == raw.isAttachment = True

AttachmentIdx(records) == {k \in 1..Len(records) : IsAttachmentRecord(records[k])}

SubstantiveIdx(records) == (1..Len(records)) \ AttachmentIdx(records)

\* the position in records of the n-th record that is no attachment
NthSubstantive(records, n) ==
    CHOOSE k \in SubstantiveIdx(records) :
        Cardinality({j \in SubstantiveIdx(records) : j < k}) = n - 1

\* the attachment records of the given type that follow record k before the next
\* record that is no attachment
SpanOf(records, k, type) ==
    {j \in (k + 1)..Len(records) :
        /\ \A m \in (k + 1)..j : IsAttachmentRecord(records[m])
        /\ records[j].attachmentType = Str(type)}

QuantityOf(raw) == IF raw.quantity.t = "num" THEN raw.quantity.n ELSE 1

RECURSIVE SumPriceTimesQuantity(_, _)
SumPriceTimesQuantity(records, S) ==
    IF S = {} THEN 0
    ELSE LET j == CHOOSE x \in S : TRUE
         IN records[j].price.n * QuantityOf(records[j])
               + SumPriceTimesQuantity(records, S \ {j})

RECURSIVE SumPrice(_, _)
SumPrice(records, S) ==
    IF S = {} THEN 0
    ELSE LET j == CHOOSE x \in S : TRUE
         IN records[j].price.n + SumPrice(records, S \ {j})

\* a record's own amount: the number, or 0 if absent
OwnOrZero(v) == IF v.t = "num" THEN v.n ELSE 0

\* a record's own amount as the parser keeps it: the number, or absent
OwnOrAbsent(v) == IF v.t = "num" THEN v ELSE Absent

\* the records without the attachment records that precede the first other record
DropLeadingAttachments(records) ==
    LET lead == {k \in 1..Len(records) : \A m \in 1..k : IsAttachmentRecord(records[m])}
    IN SubSeq(records, Cardinality(lead) + 1, Len(records))

(***************************************************************************)
(* C7: every attachment record before the first record that is no          *)
(* attachment is dropped: the parse gives what it gives without those      *)
(* records (no item for them, nothing added to any deposit or discount),   *)
(* and the first item returned is the first record that is no attachment.  *)
(***************************************************************************)
C7_OrphanAttachmentsDropped ==
    ParseOk =>
        /\ OutItems = parseResponse([parserInput[1] EXCEPT
                          !.items = DropLeadingAttachments(InRecords)]).items
        /\ SubstantiveIdx(InRecords) = {} => OutItems = <<>>
        /\ SubstantiveIdx(InRecords) # {} =>
              /\ OutItems # <<>>
              /\ OutItems[1].name = InRecords[NthSubstantive(InRecords, 1)].name.s
              /\ SpanOf(InRecords, NthSubstantive(InRecords, 1), "deposit") = {} =>
                    OutItems[1].deposit =
                       OwnOrAbsent(InRecords[NthSubstantive(InRecords, 1)].deposit)

\* a parse of a deposit attachment followed by an item: one item, its deposit its own
C7_Witness ==
    /\ ParseOk
    /\ Len(InRecords) = 2
    /\ IsAttachmentRecord(InRecords[1])
    /\ InRecords[1].attachmentType = Str("deposit")
    /\ InRecords[1].price.n > 0
    /\ ~IsAttachmentRecord(InRecords[2])
    /\ Len(OutItems) = 1
    /\ OutItems[1].deposit = Num(100)

(***************************************************************************)
(* C8: for every input the parser accepts, the number of items returned    *)
(* is the number of records minus the number of attachment records, the    *)
(* items are the records that are no attachments in their order, and so    *)
(* the output is never longer than the input and is shorter whenever the   *)
(* input has an attachment record.                                         *)
(***************************************************************************)
C8_OutputCount ==
    ParseOk =>
        /\ Len(OutItems) = Len(InRecords) - Cardinality(AttachmentIdx(InRecords))
        /\ \A n \in 1..Len(OutItems) :
              /\ OutItems[n].name = InRecords[NthSubstantive(InRecords, n)].name.s
              /\ OutItems[n].price = InRecords[NthSubstantive(InRecords, n)].price.n
        /\ Len(OutItems) <= Len(InRecords)
        /\ AttachmentIdx(InRecords) # {} => Len(OutItems) < Len(InRecords)

\* a parse of item, attachment, item: two items in the records' order
C8_Witness ==
    /\ ParseOk
    /\ Len(InRecords) = 3
    /\ AttachmentIdx(InRecords) = {2}
    /\ Len(OutItems) = 2
    /\ OutItems[1].name # OutItems[2].name

(***************************************************************************)
(* C9 as stated: every item returned has deposit = (own deposit, or 0 if   *)
(* absent) + the sum of price * quantity over the deposit attachments of   *)
(* its span, and discount = (own discount, or 0 if absent) - the sum of    *)
(* price over the discount attachments of its span.                        *)
(***************************************************************************)
C9_AsStated ==
    ParseOk =>
        \A n \in 1..Len(OutItems) :
            LET k == NthSubstantive(InRecords, n)
            IN /\ OutItems[n].deposit =
                     Num(OwnOrZero(InRecords[k].deposit)
                           + SumPriceTimesQuantity(InRecords, SpanOf(InRecords, k, "deposit")))
               /\ OutItems[n].discount =
                     Num(OwnOrZero(InRecords[k].discount)
                           - SumPrice(InRecords, SpanOf(InRecords, k, "discount")))

(***************************************************************************)
(* C9 (amended): for every item returned whose span has a deposit          *)
(* attachment, deposit = (own deposit, or 0 if absent) + the sum of        *)
(* price * quantity over them; for every item whose span has a discount    *)
(* attachment, discount = (own discount, or 0 if absent) - the sum of      *)
(* price over them; with no such attachment the field is the item's own,   *)
(* and absent if the item has none.                                        *)
(***************************************************************************)
C9_MergedAmounts ==
    ParseOk =>
        \A n \in 1..Len(OutItems) :
            LET k == NthSubstantive(InRecords, n)
                deposits == SpanOf(InRecords, k, "deposit")
                discounts == SpanOf(InRecords, k, "discount")
            IN /\ OutItems[n].deposit =
                     IF deposits = {} THEN OwnOrAbsent(InRecords[k].deposit)
                     ELSE Num(OwnOrZero(InRecords[k].deposit)
                                + SumPriceTimesQuantity(InRecords, deposits))
               /\ OutItems[n].discount =
                     IF discounts = {} THEN OwnOrAbsent(InRecords[k].discount)
                     ELSE Num(OwnOrZero(InRecords[k].discount)
                                - SumPrice(InRecords, discounts))

\* the parse of an item followed by a deposit of 0.5 with quantity 2 and a discount
\* of 0.5 with quantity 3: deposit 1.0, discount -0.5
C9_Witness ==
    /\ ParseOk
    /\ Len(InRecords) = 3
    /\ InRecords[1].name = Str("ORG MLK")
    /\ InRecords[2] = AttachmentItem("Deposit", 50, Num(2), Str("deposit"))
    /\ InRecords[3] = AttachmentItem("TPD", 50, Num(3), Str("discount"))
    /\ Len(OutItems) = 1
    /\ OutItems[1].deposit = Num(100)
    /\ OutItems[1].discount = Num(-50)

(***************************************************************************)
(* C10: every item parseResponse returns whose discount is present has     *)
(* discount < 0.                                                           *)
(***************************************************************************)
C10_DiscountNegative ==
    ParseOk =>
        \A n \in 1..Len(OutItems) :
            OutItems[n].discount # Absent => OutItems[n].discount.n < 0

(***************************************************************************)
(* C11: no item handed outside carries an internal or transient field:     *)
(* every item of the returned list and of every allItems snapshot has      *)
(* exactly the public fields, none of needsVerification, isAttachment,     *)
(* attachmentType, attachedTo; the returned items' public fields are those *)
(* of the internal items at the same position, and so are those of the     *)
(* snapshot of a pending invocation.                                       *)
(***************************************************************************)
PublicFields == {"name", "price", "quantity", "hasTax", "taxAmount", "deposit", "discount"}

InternalFields == {"needsVerification", "isAttachment", "attachmentType", "attachedTo"}

\* the list has the internal list's length, public fields and values
IsPublicViewOf(list, internal) ==
    /\ Len(list) = Len(internal)
    /\ \A k \in 1..Len(list) :
          /\ DOMAIN list[k] = PublicFields
          /\ DOMAIN list[k] \cap InternalFields = {}
          /\ \A f \in PublicFields : list[k][f] = internal[k][f]

C11_NoInternalFieldsExposed ==
    /\ \A c \in 1..Len(cbCalls) :
          \A k \in 1..Len(cbCalls[c].context.allItems) :
             /\ DOMAIN cbCalls[c].context.allItems[k] = PublicFields
             /\ DOMAIN cbCalls[c].context.allItems[k] \cap InternalFields = {}
    /\ pc = "awaitCallback" =>
          IsPublicViewOf(cbCalls[Len(cbCalls)].context.allItems, parsedItems)
    /\ pc = "done" => IsPublicViewOf(returned[1].items, parsedItems)

\* a finished run that merged an attachment, invoked the callback, and returns an item
\* whose internal flag is still set
C11_Witness ==
    /\ pc = "done"
    /\ cbCalls # <<>>
    /\ \E k \in 1..Len(responseText[1].items) :
          responseText[1].items[k].isAttachment = True
    /\ \E k \in 1..Len(parsedItems) :
          parsedItems[k].needsVerification /\ returned[1].items[k].deposit = Num(100)

(***************************************************************************)
(* C12: when the oracle's payload is no parseable JSON, is no object, has  *)
(* items that is no array, or has a total that is missing, no number or    *)
(* negative, parseResponse throws (it returns no empty or partial result)  *)
(* and extractReceiptItems throws that error: nothing is returned and no   *)
(* verification source is invoked.                                         *)
(***************************************************************************)
\* the payload of the text is malformed at its top level
IsMalformed(text) ==
    \/ text.kind # "object"
    \/ ~text.itemsIsArray
    \/ text.total.t # "num"
    \/ text.total.n < 0

C12_MalformedPayloadFails ==
    responseText # <<>> /\ IsMalformed(responseText[1]) =>
        /\ pc = "failed"
        /\ thrown # ""
        /\ returned = <<>>
        /\ parsedItems = <<>>
        /\ batchCalls = <<>>
        /\ cbCalls = <<>>

\* a failed call whose payload has an item list and a negative total, in a code block
C12_Witness ==
    /\ pc = "failed"
    /\ responseText # <<>>
    /\ responseText[1].kind = "object"
    /\ responseText[1].fenced
    /\ responseText[1].itemsIsArray
    /\ responseText[1].items # <<>>
    /\ responseText[1].total = Num(-1350)
    /\ thrown = "Response.total is missing or invalid"

(***************************************************************************)
(* C13: when any record of the items array, attachment or not, has a name  *)
(* that is no non-empty string or a price that is no non-negative number,  *)
(* the whole parseResponse call fails, no item is returned, and the error  *)
(* names the index (from 0) of the first such record in the array.         *)
(***************************************************************************)
\* the record's name is no non-empty string or its price is no non-negative number
IsOffending(raw) ==
    \/ raw.name.t # "str"
    \/ raw.name.s = ""
    \/ raw.price.t # "num"
    \/ raw.price.n < 0

OffendingIdx(records) == {k \in 1..Len(records) : IsOffending(records[k])}

C13_InvalidRecordFailsParse ==
    /\ parserOutput # <<>>
    /\ ~IsMalformed(parserInput[1])
    /\ OffendingIdx(InRecords) # {}
    => /\ ~parserOutput[1].ok
       /\ parserOutput[1].items = <<>>
       /\ parserOutput[1].error # ""
       /\ parserOutput[1].index + 1 \in OffendingIdx(InRecords)
       /\ \A k \in OffendingIdx(InRecords) : parserOutput[1].index + 1 <= k

\* a failed parse of a valid record followed by two offending ones, the first of them
\* an attachment with a negative price: the error names index 1
C13_Witness ==
    /\ parserOutput # <<>>
    /\ Len(InRecords) = 3
    /\ OffendingIdx(InRecords) = {2, 3}
    /\ IsAttachmentRecord(InRecords[2])
    /\ InRecords[3].name = Str("")
    /\ ~parserOutput[1].ok
    /\ parserOutput[1].index = 1
    /\ parserOutput[1].error = "Invalid item: missing or invalid price field"

(***************************************************************************)
(* C14: automatic verification is off only when autoVerify is false.  With *)
(* autoVerify false the batch source is never invoked; with no callback    *)
(* either, no source is invoked and the returned items are the parsed      *)
(* items, names included.  With autoVerify absent or true and at least one *)
(* flagged item, the batch source is invoked, once, with the flagged items.*)
(***************************************************************************)
C14_AutoVerifyDefaultOn ==
    /\ options.autoVerify = "false" => batchCalls = <<>>
    /\ options.autoVerify = "false" /\ ~options.verifyCallback =>
          /\ cbCalls = <<>>
          /\ Parsed => pc = "done" /\ returned[1].items = PublicItems(parsed0)
    /\ options.autoVerify # "false" /\ Parsed
          /\ (\E k \in 1..Len(parsed0) : parsed0[k].needsVerification) =>
          /\ Len(batchCalls) = 1
          /\ batchCalls[1].arg = SelectSeq(parsed0, LAMBDA it : it.needsVerification)

\* autoVerify false, no callback: the flagged item of price 12.5 followed by a deposit
\* attachment of 0.5 with quantity 2 is returned as one item under its parsed name,
\* deposit 1.0, total 13.5
C14_Witness ==
    /\ pc = "done"
    /\ options = [autoVerify |-> "false", verifyCallback |-> FALSE]
    /\ Len(responseText[1].items) = 2
    /\ responseText[1].items[2].isAttachment = True
    /\ returned[1] = [items |-> <<[name |-> "A", price |-> 1250, quantity |-> 1,
                                   hasTax |-> FALSE, taxAmount |-> Absent,
                                   deposit |-> Num(100), discount |-> Absent]>>,
                      total |-> 1350]
    /\ parsed0[1].needsVerification

\* autoVerify absent: the batch source has been invoked
C14_WitnessDefault ==
    /\ options.autoVerify = "absent"
    /\ Len(batchCalls) = 1

(***************************************************************************)
(* C15: when the call returns, every item the parser flagged is in one of  *)
(* two states.  If the batch mapping had a non-empty name for it, or a     *)
(* callback invocation for it returned a non-empty verifiedName, its flag  *)
(* is cleared and its name is the name of the first pass that resolved it. *)
(* Otherwise (no entry, an empty entry, a failed batch call, a null        *)
(* result, an empty verifiedName, a throw, no source) its flag is still    *)
(* set and its name is the parsed name.                                    *)
(***************************************************************************)
\* some callback invocation for item k returned a non-empty verifiedName
CallbackResolvedItem(k) ==
    \E c \in 1..Len(cbCalls) : cbCalls[c].index = k /\ CallbackResolved(c)

\* the verifiedName of the first invocation that resolved item k
CallbackNameOf(k) ==
    LET S == {c \in 1..Len(cbCalls) : cbCalls[c].index = k /\ CallbackResolved(c)}
    IN cbCalls[CHOOSE c \in S : \A d \in S : c <= d].result.verifiedName

C15_FlagAndNameAtEnd ==
    pc = "done" =>
        \A k \in 1..Len(parsed0) :
            parsed0[k].needsVerification =>
                IF BatchResolved(k)
                THEN /\ ~parsedItems[k].needsVerification
                     /\ parsedItems[k].name = batchCalls[1].map[parsed0[k].name]
                     /\ returned[1].items[k].name = batchCalls[1].map[parsed0[k].name]
                ELSE IF CallbackResolvedItem(k)
                THEN /\ ~parsedItems[k].needsVerification
                     /\ parsedItems[k].name = CallbackNameOf(k)
                     /\ returned[1].items[k].name = CallbackNameOf(k)
                ELSE /\ parsedItems[k].needsVerification
                     /\ parsedItems[k].name = parsed0[k].name
                     /\ returned[1].items[k].name = parsed0[k].name

\* a finished run with one item resolved by the batch pass, one by the callback, and one
\* left flagged after the callback returned an empty verifiedName for it
C15_Witness ==
    /\ pc = "done"
    /\ Len(parsed0) = 3
    /\ BatchResolved(1)
    /\ ~BatchResolved(2) /\ CallbackResolvedItem(2)
    /\ ~BatchResolved(3) /\ ~CallbackResolvedItem(3)
    /\ \E c \in 1..Len(cbCalls) :
          /\ cbCalls[c].index = 3
          /\ cbCalls[c].outcome = "returned"
          /\ cbCalls[c].result = NamedResult("")
    /\ parsedItems[3].needsVerification

(***************************************************************************)
(* C16: the batch pass applies its result by name, not by position.        *)
(* As stated: all flagged items that share a parsed name get the mapping's *)
(* name and lose their flag when the mapping has an entry for that name,   *)
(* and all stay unresolved when it has none.  An entry that is the empty   *)
(* string is an entry and resolves nothing (if (verifiedName)), so the     *)
(* statement holds with "a non-empty entry" and "no entry or an empty one".*)
(***************************************************************************)
\* the batch call returned and no callback invocation has returned yet: parsedItems is
\* the list as the batch pass left it
AfterBatchPass ==
    /\ BatchReturned
    /\ \/ pc = "awaitCallback" /\ Len(cbCalls) = 1
       \/ pc = "done" /\ cbCalls = <<>>

\* flagged items k and j have the same parsed name
SameParsedName(j, k) ==
    /\ parsed0[j].needsVerification
    /\ parsed0[k].needsVerification
    /\ parsed0[j].name = parsed0[k].name

C16_AsStated ==
    AfterBatchPass =>
        \A k \in 1..Len(parsed0) :
            parsed0[k].needsVerification =>
                IF parsed0[k].name \in DOMAIN batchCalls[1].map
                THEN /\ ~parsedItems[k].needsVerification
                     /\ parsedItems[k].name = batchCalls[1].map[parsed0[k].name]
                ELSE /\ parsedItems[k].needsVerification
                     /\ parsedItems[k].name = parsed0[k].name

C16_BatchAppliesByName ==
    AfterBatchPass =>
        /\ \A k \in 1..Len(parsed0) :
              parsed0[k].needsVerification =>
                  IF /\ parsed0[k].name \in DOMAIN batchCalls[1].map
                     /\ batchCalls[1].map[parsed0[k].name] # ""
                  THEN /\ ~parsedItems[k].needsVerification
                       /\ parsedItems[k].name = batchCalls[1].map[parsed0[k].name]
                  ELSE /\ parsedItems[k].needsVerification
                       /\ parsedItems[k].name = parsed0[k].name
        /\ \A j, k \in 1..Len(parsed0) :
              SameParsedName(j, k) =>
                  /\ parsedItems[j].name = parsedItems[k].name
                  /\ parsedItems[j].needsVerification = parsedItems[k].needsVerification

\* items 1 and 3 share the name "B", which the mapping resolves to "X"; item 2 is "A",
\* for which the mapping has nothing
C16_Witness ==
    /\ AfterBatchPass
    /\ Len(parsed0) = 3
    /\ SameParsedName(1, 3)
    /\ parsed0[1].name = "B"
    /\ parsed0[2].name = "A" /\ parsed0[2].needsVerification
    /\ batchCalls[1].map = [n \in {"B"} |-> "X"]
    /\ parsedItems[1].name = "X" /\ ~parsedItems[1].needsVerification
    /\ parsedItems[3].name = "X" /\ ~parsedItems[3].needsVerification
    /\ parsedItems[2].name = "A" /\ parsedItems[2].needsVerification

(***************************************************************************)
(* C17: within one extractReceiptItems call the external calls happen in a *)
(* fixed order and bounded number: exactly one oracle call, never retried  *)
(* even when it or the parse fails; then at most one batch verification    *)
(* call; then the callback invocations.  No verification source is invoked *)
(* before the oracle response has been parsed successfully, and no         *)
(* callback is invoked before the batch call has returned or thrown.       *)
(***************************************************************************)
\* the positions of callLog that hold a call of fn
CallsOf(fn) == {k \in 1..Len(callLog) : callLog[k] = fn}

C17_ExternalCallOrder ==
    /\ callLog # <<>> /\ callLog[1] = "callGemini"
    /\ CallsOf("callGemini") = {1}
    /\ CallsOf("batchVerifyItems") \subseteq {2}
    /\ \A k \in 1..Len(callLog) :
          k > 2 \/ (k = 2 /\ callLog[k] # "batchVerifyItems") => callLog[k] = "verifyCallback"
    /\ Cardinality(CallsOf("batchVerifyItems")) = Len(batchCalls)
    /\ Cardinality(CallsOf("verifyCallback")) = Len(cbCalls)
    /\ Len(callLog) > 1 =>
          /\ Parsed
          /\ responseText # <<>>
          /\ ~IsMalformed(responseText[1])
          /\ FirstInvalidIndex(responseText[1].items) = -1
    /\ pc = "failed" => callLog = <<"callGemini">> /\ batchCalls = <<>> /\ cbCalls = <<>>
    /\ cbCalls # <<>> /\ batchCalls # <<>> => batchCalls[1].outcome \in {"returned", "threw"}
    /\ pc = "awaitBatch" => callLog = <<"callGemini", "batchVerifyItems">>

\* a finished run that made all three kinds of call, the batch call having thrown
C17_Witness ==
    /\ pc = "done"
    /\ callLog = <<"callGemini", "batchVerifyItems", "verifyCallback", "verifyCallback">>
    /\ BatchThrew
    /\ cbCalls[1].outcome = "returned"
    /\ cbCalls[2].outcome = "threw"

(***************************************************************************)
(* C19: every item returned by extractReceiptItems has a quantity greater  *)
(* than 0, for every payload the parser accepts, and an absent or          *)
(* non-numeric quantity becomes 1.  The second half holds; the first does  *)
(* not: normalizeRawItem keeps any numeric quantity, 0 and negative        *)
(* numbers included.                                                       *)
(***************************************************************************)
\* the payload element from which the k-th returned item was made
RawOfReturned(k) == responseText[1].items[NthSubstantive(responseText[1].items, k)]

C19_QuantityPositive ==
    pc = "done" =>
        \A k \in 1..Len(returned[1].items) :
            /\ returned[1].items[k].quantity > 0
            /\ ~IsNumber(RawOfReturned(k).quantity) =>
                  returned[1].items[k].quantity = 1

\* the half of C19 that holds: an absent or non-numeric quantity becomes 1
C19_QuantityDefault ==
    pc = "done" =>
        \A k \in 1..Len(returned[1].items) :
            returned[1].items[k].quantity =
                IF IsNumber(RawOfReturned(k).quantity)
                THEN RawOfReturned(k).quantity.n
                ELSE 1

(***************************************************************************)
(* C20: every item returned by extractReceiptItems has a non-empty name    *)
(* and a price >= 0, whatever the verification sources return: a batch     *)
(* mapping entry or a callback result with an empty resolved name never    *)
(* replaces a name, and verification never changes a price.  The same is   *)
(* true of the internal list at every suspension after the parse.          *)
(***************************************************************************)
C20_NameAndPriceValid ==
    /\ Parsed =>
          /\ Len(parsedItems) = Len(parsed0)
          /\ \A k \in 1..Len(parsedItems) :
                /\ parsedItems[k].name # ""
                /\ parsedItems[k].price >= 0
                /\ parsedItems[k].price = parsed0[k].price
    /\ pc = "done" =>
          /\ Len(returned[1].items) = Len(parsed0)
          /\ \A k \in 1..Len(parsed0) :
                /\ returned[1].items[k].name # ""
                /\ returned[1].items[k].price >= 0
                /\ returned[1].items[k].price = parsed0[k].price

\* a finished run in which the mapping had the empty name for the first item and the
\* callback then returned an empty verifiedName for it: the item keeps its parsed name
C20_Witness ==
    /\ pc = "done"
    /\ parsed0 # <<>>
    /\ parsed0[1].needsVerification
    /\ BatchReturned
    /\ parsed0[1].name \in DOMAIN batchCalls[1].map
    /\ batchCalls[1].map[parsed0[1].name] = ""
    /\ cbCalls # <<>>
    /\ cbCalls[1].index = 1
    /\ cbCalls[1].outcome = "returned"
    /\ cbCalls[1].result = NamedResult("")
    /\ returned[1].items[1].name = parsed0[1].name
    /\ returned[1].items[1].price = 1250

(***************************************************************************)
(* C18: concurrent extractReceiptItems calls do not interfere.  For every  *)
(* interleaving of two calls at their suspension points, what each call    *)
(* returns (or throws) is what one call run alone returns (or throws) when *)
(* it is given the same oracle text, the same batch answer and the same    *)
(* callback answers.                                                       *)
(***************************************************************************)
\* the callback loop of a call run alone from position k on, answered by cbs in order
RECURSIVE SoloCallbackLoop(_, _, _)
SoloCallbackLoop(items, k, cbs) ==
    IF k > Len(items) \/ cbs = <<>> THEN items
    ELSE IF ~items[k].needsVerification THEN SoloCallbackLoop(items, k + 1, cbs)
    ELSE SoloCallbackLoop(
            IF Head(cbs).outcome = "returned"
            THEN [items EXCEPT ![k] = ApplyCallbackResult(items[k], Head(cbs).result)]
            ELSE items,
            k + 1, Tail(cbs))

\* what a call run alone returns for the text, the batch answer and the callback answers
SoloResult(opts, text, batch, cbs) ==
    LET parsed == parseResponse(text)
        flagged == ItemsNeedingVerification(parsed.items)
        afterBatch ==
            IF /\ AutoVerifyEnabled(opts)
               /\ Len(flagged) > 0
               /\ batch # <<>>
               /\ batch[1].outcome = "returned"
            THEN ApplyVerificationMap(parsed.items, batch[1].map)
            ELSE parsed.items
        final == IF opts.verifyCallback THEN SoloCallbackLoop(afterBatch, 1, cbs)
                 ELSE afterBatch
    IN ReceiptData(final, parsed.total)

\* the error a call run alone throws: that of callGemini, else that of parseResponse
SoloError(text) == IF text = <<>> THEN "callGemini failed" ELSE parseResponse(text[1]).error

\* call c ended as it ends when run alone
EndsAsAlone(c) ==
    /\ c.pc = "done" =>
          /\ c.returned = <<SoloResult(c.options, c.responseText[1], c.batchCalls, c.cbCalls)>>
          /\ c.thrown = ""
    /\ c.pc = "failed" =>
          /\ c.thrown = SoloError(c.responseText)
          /\ c.returned = <<>>

C18_ConcurrentCallsIndependent ==
    other # <<>> => EndsAsAlone(CallState) /\ EndsAsAlone(other[1])

\* one call has returned the receipt of "A" with a callback name while the other, on
\* the receipt of "B", is suspended in its callback with its batch call behind it
C18_Witness ==
    /\ other # <<>>
    /\ pc = "done"
    /\ returned[1].total = 1250
    /\ returned[1].items[1].name = "Y"
    /\ other[1].pc = "awaitCallback"
    /\ other[1].total = 1600
    /\ other[1].batchCalls[1].outcome = "returned"
    /\ other[1].parsedItems[1].name = "B"

(***************************************************************************)
(* C21: needsVerification and hasTax of a parsed item are true only when   *)
(* the payload's field is the boolean true; a missing field or any         *)
(* non-boolean value is coerced to false, so an item with a non-boolean    *)
(* needsVerification is never offered to a verification source.  The code  *)
(* uses Boolean(v): a non-empty string (even "false") or a non-zero number *)
(* gives true, and such an item is offered to the verification sources.    *)
(***************************************************************************)
C21_OnlyBooleanTrueIsTrue ==
    Parsed =>
        \A k \in 1..Len(parsed0) :
            /\ parsed0[k].needsVerification = (RawOfReturned(k).needsVerification = True)
            /\ parsed0[k].hasTax = (RawOfReturned(k).hasTax = True)
            /\ RawOfReturned(k).needsVerification # True =>
                  /\ \A c \in 1..Len(batchCalls) :
                        \A j \in 1..Len(batchCalls[c].arg) :
                            batchCalls[c].arg[j].name # parsed0[k].name
                  /\ \A c \in 1..Len(cbCalls) : cbCalls[c].index # k

\* what the code does: the flags are the JavaScript truthiness of the fields
C21_FlagsAreTruthiness ==
    Parsed =>
        \A k \in 1..Len(parsed0) :
            /\ parsed0[k].needsVerification = Truthy(RawOfReturned(k).needsVerification)
            /\ parsed0[k].hasTax = Truthy(RawOfReturned(k).hasTax)

(***************************************************************************)
(* C22: the callback pass is strictly sequential.  The callback is invoked *)
(* for the items still flagged after the batch pass, in their list order;  *)
(* an invocation starts only after the previous one has returned or        *)
(* thrown; each item is offered at most once; the name argument of an      *)
(* invocation is the name the item has at that moment.  When the call      *)
(* returns with a callback configured, every such item has been offered.   *)
(***************************************************************************)
C22_CallbackPassSequential ==
    /\ \A c, d \in 1..Len(cbCalls) : c < d => cbCalls[c].index < cbCalls[d].index
    /\ \A c \in 1..Len(cbCalls) :
          /\ c < Len(cbCalls) => cbCalls[c].outcome \in {"returned", "threw"}
          /\ cbCalls[c].outcome = "pending" => pc = "awaitCallback" /\ i = cbCalls[c].index
          /\ FlaggedAfterBatch(cbCalls[c].index)
          /\ cbCalls[c].name = NameBefore(c, cbCalls[c].index)
          /\ cbCalls[c].name = cbCalls[c].context.allItems[cbCalls[c].index].name
          /\ \A k \in 1..(cbCalls[c].index - 1) :
                FlaggedAfterBatch(k) => \E d \in 1..(c - 1) : cbCalls[d].index = k
    /\ pc = "awaitCallback" => cbCalls # <<>> /\ cbCalls[Len(cbCalls)].outcome = "pending"
    /\ pc = "done" /\ options.verifyCallback =>
          {cbCalls[c].index : c \in 1..Len(cbCalls)}
             = {k \in 1..Len(parsed0) : FlaggedAfterBatch(k)}

\* three items, the second resolved by the batch pass: the callback threw for the first
\* and was then invoked for the third, which it resolved
C22_Witness ==
    /\ pc = "done"
    /\ Len(parsed0) = 3
    /\ BatchResolved(2)
    /\ Len(cbCalls) = 2
    /\ cbCalls[1].index = 1 /\ cbCalls[1].outcome = "threw"
    /\ cbCalls[2].index = 3 /\ CallbackResolved(2)
    /\ cbCalls[2].name = parsed0[3].name

(***************************************************************************)
(* C23: a response that follows the output format of the extraction        *)
(* prompt, its example with the discount attachment "TPD" of price -0.5    *)
(* included, is accepted by parseResponse, and the attachment is merged    *)
(* into the preceding item: it is no item of the output and the parse does *)
(* not fail.  normalizeRawItem rejects every element with a negative       *)
(* price, attachments included, so the prompt's own example fails to parse.*)
(***************************************************************************)
\* an element as the prompt's format describes it: name, price, quantity and the two
\* flags given, an attachment typed "deposit" or "discount"; only a discount attachment
\* may carry a negative price
FollowsPromptFormat(raw) ==
    /\ raw.kind = "object"
    /\ IsString(raw.name) /\ raw.name.s # ""
    /\ IsNumber(raw.price)
    /\ IsNumber(raw.quantity) /\ raw.quantity.n > 0
    /\ raw.needsVerification \in {True, False}
    /\ raw.hasTax \in {True, False}
    /\ raw.taxAmount = Absent \/ (IsNumber(raw.taxAmount) /\ raw.taxAmount.n >= 0)
    /\ raw.deposit = Absent /\ raw.discount = Absent
    /\ \/ raw.isAttachment = Absent /\ raw.attachmentType = Absent /\ raw.price.n >= 0
       \/ raw.isAttachment = True /\ raw.attachmentType = Str("deposit") /\ raw.price.n >= 0
       \/ raw.isAttachment = True /\ raw.attachmentType = Str("discount")

\* the text is a JSON object of the prompt's format whose first element is an item
TextFollowsPromptFormat(text) ==
    /\ text.kind = "object"
    /\ text.itemsIsArray
    /\ IsNumber(text.total) /\ text.total.n >= 0
    /\ text.items # <<>>
    /\ ~IsAttachmentRecord(text.items[1])
    /\ \A k \in 1..Len(text.items) : FollowsPromptFormat(text.items[k])

C23_PromptFormatAccepted ==
    parserInput # <<>> /\ TextFollowsPromptFormat(parserInput[1]) =>
        /\ parserOutput[1].ok
        /\ Len(OutItems) = Cardinality(SubstantiveIdx(InRecords))
        /\ \A n \in 1..Len(OutItems) :
              /\ OutItems[n].name = InRecords[NthSubstantive(InRecords, n)].name.s
              /\ SpanOf(InRecords, NthSubstantive(InRecords, n), "discount") # {} =>
                    IsNumber(OutItems[n].discount)

\* the prompt's format with the discount attachment's price written as a positive
\* number is accepted and merged
C23_PositiveDiscountAccepted ==
    /\ parserInput # <<>>
    /\ TextFollowsPromptFormat(parserInput[1])
    /\ \E k \in 1..Len(InRecords) :
          InRecords[k].attachmentType = Str("discount") /\ InRecords[k].price.n > 0
    /\ \A k \in 1..Len(InRecords) : InRecords[k].price.n >= 0
    /\ parserOutput[1].ok
    /\ Len(OutItems) = 1
    /\ OutItems[1].discount = Num(-50)

(***************************************************************************)
(* C24: every returned item whose taxAmount is present has taxAmount >= 0, *)
(* for every payload the parser accepts, and a non-numeric taxAmount is    *)
(* dropped, not defaulted to zero.  The second half holds; the first does  *)
(* not: normalizeRawItem keeps any numeric taxAmount, negative included.   *)
(***************************************************************************)
C24_TaxAmountNonNegative ==
    pc = "done" =>
        \A k \in 1..Len(returned[1].items) :
            /\ returned[1].items[k].taxAmount # Absent =>
                  /\ IsNumber(returned[1].items[k].taxAmount)
                  /\ returned[1].items[k].taxAmount.n >= 0
            /\ ~IsNumber(RawOfReturned(k).taxAmount) =>
                  returned[1].items[k].taxAmount = Absent

\* the half of C24 that holds: a numeric taxAmount is kept as it is, any other is absent
C24_TaxAmountKeptIfNumeric ==
    pc = "done" =>
        \A k \in 1..Len(returned[1].items) :
            returned[1].items[k].taxAmount =
                IF IsNumber(RawOfReturned(k).taxAmount) THEN RawOfReturned(k).taxAmount
                ELSE Absent

(***************************************************************************)
(* C25: mergeAttachments is idempotent.  Its output has no attachment      *)
(* record and no attachment metadata, so applying it to its own output     *)
(* gives the same list: same length, same order, same field values.        *)
(***************************************************************************)
AttachmentMetadata == {"isAttachment", "attachmentType", "attachedTo"}

\* an item as the loop of mergeAttachments reads it: a key the object does not have
\* reads as undefined
ReadAsRawReceiptItem(item) ==
    [f \in DOMAIN item \cup AttachmentMetadata |->
        IF f \in DOMAIN item THEN item[f] ELSE Absent]

\* mergeAttachments applied to a list it returned
MergeAgain(items) ==
    mergeAttachments([k \in 1..Len(items) |-> ReadAsRawReceiptItem(items[k])])

C25_MergeIdempotent ==
    ParseOk =>
        /\ \A k \in 1..Len(OutItems) : DOMAIN OutItems[k] \cap AttachmentMetadata = {}
        /\ Len(MergeAgain(OutItems)) = Len(OutItems)
        /\ MergeAgain(OutItems) = OutItems

\* an item with its own discount followed by a deposit and a discount attachment: one
\* item comes out, with both amounts merged, and merging again leaves it as it is
C25_Witness ==
    /\ ParseOk
    /\ Len(InRecords) = 3
    /\ InRecords[1].name = Str("ORG BRD")
    /\ InRecords[2].attachmentType = Str("deposit") /\ IsAttachmentRecord(InRecords[2])
    /\ InRecords[3].attachmentType = Str("discount") /\ IsAttachmentRecord(InRecords[3])
    /\ Len(OutItems) = 1
    /\ OutItems[1].discount = Num(0)
    /\ MergeAgain(OutItems) = OutItems

(***************************************************************************)
(* C26: an attachment record never takes part in verification and never    *)
(* changes its owner's identity.  Its name is never passed to the batch    *)
(* source or to the callback and never appears in the result; its          *)
(* needsVerification and hasTax do not change the owner's                  *)
(* needsVerification, hasTax, name, price or quantity: those are the       *)
(* owner's own, and only its deposit or discount changes.                  *)
(***************************************************************************)
\* the names of the attachment records of the payload
AttachmentNames ==
    {responseText[1].items[k].name.s : k \in AttachmentIdx(responseText[1].items)}

\* names of list items, as a set
NamesOf(items) == {items[k].name : k \in 1..Len(items)}

C26_AttachmentsStayOut ==
    Parsed =>
        /\ Len(parsed0) = Cardinality(SubstantiveIdx(responseText[1].items))
        /\ \A n \in 1..Len(parsed0) :
              LET own == normalizeRawItem(RawOfReturned(n))
              IN /\ parsed0[n].name = own.name
                 /\ parsed0[n].price = own.price
                 /\ parsed0[n].quantity = own.quantity
                 /\ parsed0[n].needsVerification = own.needsVerification
                 /\ parsed0[n].hasTax = own.hasTax
                 /\ parsed0[n].taxAmount = own.taxAmount
        /\ \A c \in 1..Len(batchCalls) :
              /\ NamesOf(batchCalls[c].arg) \cap AttachmentNames = {}
              /\ Len(batchCalls[c].arg)
                    = Cardinality({n \in 1..Len(parsed0) :
                          normalizeRawItem(RawOfReturned(n)).needsVerification})
        /\ \A c \in 1..Len(cbCalls) :
              /\ cbCalls[c].name \notin AttachmentNames
              /\ NamesOf(cbCalls[c].context.allItems) \cap AttachmentNames = {}
              /\ normalizeRawItem(RawOfReturned(cbCalls[c].index)).needsVerification
        /\ NamesOf(parsedItems) \cap AttachmentNames = {}
        /\ pc = "done" => NamesOf(returned[1].items) \cap AttachmentNames = {}

\* an item that is not flagged, followed by a flagged and taxed discount attachment:
\* no verification source is invoked, and the item comes back with the discount only
C26_Witness ==
    /\ pc = "done"
    /\ options = [autoVerify |-> "absent", verifyCallback |-> TRUE]
    /\ responseText[1].items = <<PlainItem("A", 450, Num(3), False), FlaggedAttachment>>
    /\ batchCalls = <<>>
    /\ cbCalls = <<>>
    /\ returned[1].items =
          <<[name |-> "A", price |-> 450, quantity |-> 3, hasTax |-> FALSE,
             taxAmount |-> Absent, deposit |-> Absent, discount |-> Num(-50)]>>

(***************************************************************************)
(* C27: a record with isAttachment = true whose attachmentType is missing  *)
(* or is neither "deposit" nor "discount" is removed from the output,      *)
(* leaves the current item's deposit and discount unchanged, and does not  *)
(* close the current item: later attachments still merge into it.  So the  *)
(* parse gives exactly what it gives for the payload without such records. *)
(***************************************************************************)
\* an attachment record of no known type
IsUntypedAttachment(raw) ==
    /\ IsAttachmentRecord(raw)
    /\ raw.attachmentType \notin {Str("deposit"), Str("discount")}

WithoutUntypedAttachments(records) ==
    SelectSeq(records, LAMBDA raw : ~IsUntypedAttachment(raw))

C27_UntypedAttachmentIgnored ==
    ParseOk =>
        /\ OutItems = parseResponse([parserInput[1] EXCEPT
                         !.items = WithoutUntypedAttachments(InRecords)]).items
        /\ \A k \in 1..Len(InRecords) :
              IsUntypedAttachment(InRecords[k]) =>
                  \A n \in 1..Len(OutItems) : OutItems[n].name # InRecords[k].name.s

\* an item, an attachment of type "tip", then a deposit attachment: one item comes out,
\* and its deposit is that of the deposit attachment alone
C27_Witness ==
    /\ ParseOk
    /\ InRecords = << PlainItem("ORG MLK", 1250, Num(1), True),
                      AttachmentItem("Tip", 70, Num(2), Str("tip")),
                      AttachmentItem("Deposit", 50, Num(2), Str("deposit")) >>
    /\ Len(OutItems) = 1
    /\ OutItems[1].name = "ORG MLK"
    /\ OutItems[1].deposit = Num(100)
    /\ OutItems[1].discount = Absent

=============================================================================
